---- MODULE Spec2Model ----
(***************************************************************************)
(* A model of nlsh (src/src/main.rs): the credential store (config file    *)
(* and shell-startup files), provider resolution, the credential check,    *)
(* and the generation flow of main with its confirmation wait and the      *)
(* command executor.                                                       *)
(*                                                                         *)
(* Strings are sequences of one-character strings, so that trimming,       *)
(* splitting at '=', prefix tests, lower-casing and the byte order of the  *)
(* BTreeMap are computed as the code computes them.  A file is a record    *)
(* [exists, lines]: lines is what str::lines() yields for its content.     *)
(***************************************************************************)
EXTENDS Integers, Sequences, FiniteSets, TLC

VARIABLES
    cfg,         \* the config file ~/.nlsh/.env
    rc,          \* the shell-startup files, by name
    ninv,        \* invocations of the tool started so far
    pc,          \* position of the running invocation in main
    home,        \* whether home_dir() resolves for this invocation
    args,        \* the parsed Args
    environ,     \* the process environment (env::var / env::set_var)
    provider,    \* main's `provider` (line 323), "None" before
    api_key,     \* result of ensure_api_key, [tag |-> "None"] before
    command,     \* the proposed command, <<>> before
    raw,         \* terminal is in raw mode
    acquired,    \* successful enable_raw_mode calls of this invocation
    released,    \* successful disable_raw_mode calls of this invocation
    decision,    \* state of the confirmation wait
    lastEvent,   \* the last result of event::read()
    events,      \* events read by this invocation
    child,       \* what became of the subprocess
    spawned,     \* subprocesses spawned by this invocation
    netCalls,    \* HTTP requests sent by this invocation
    out,         \* lines printed by this invocation
    exitStatus,  \* process exit status, -1 while running
    probe        \* inputs and results of the pure-function specifications

vars == <<cfg, rc, ninv, pc, home, args, environ, provider, api_key, command,
          raw, acquired, released, decision, lastEvent, events, child,
          spawned, netCalls, out, exitStatus, probe>>

----------------------------------------------------------------------------
(* Characters and strings *)

\* The characters of the model in ASCII (byte) order.
AsciiOrder ==
    <<" ", "\"", "#", "-", ".", "=",
      "A", "B", "C", "D", "E", "F", "G", "H", "I", "J", "K", "L", "M",
      "N", "O", "P", "Q", "R", "S", "T", "U", "V", "W", "X", "Y", "Z", "_",
      "a", "b", "c", "d", "e", "f", "g", "h", "i", "j", "k", "l", "m",
      "n", "o", "p", "q", "r", "s", "t", "u", "v", "w", "x", "y", "z">>

OrdOf ==
    [c \in {AsciiOrder[i] : i \in 1..Len(AsciiOrder)} |->
        CHOOSE i \in 1..Len(AsciiOrder) : AsciiOrder[i] = c]

\* the byte value's rank
Ord(c) == OrdOf[c]

FirstUpper == Ord("A")
FirstLower == Ord("a")

IsUpper(c) == Ord(c) >= FirstUpper /\ Ord(c) < FirstUpper + 26

\* char::to_lowercase on the model's (ASCII) characters
LowerChar(c) == IF IsUpper(c) THEN AsciiOrder[Ord(c) - FirstUpper + FirstLower] ELSE c

UpperChar(c) ==
    IF Ord(c) >= FirstLower /\ Ord(c) < FirstLower + 26
    THEN AsciiOrder[Ord(c) - FirstLower + FirstUpper] ELSE c

\* str::to_lowercase
to_lowercase(s) == [i \in 1..Len(s) |-> LowerChar(s[i])]

IsSpace(c) == c = " "

\* str::trim_start
RECURSIVE trim_start(_)
trim_start(s) ==
    IF s /= <<>> /\ IsSpace(Head(s)) THEN trim_start(Tail(s)) ELSE s

\* str::trim_end
RECURSIVE trim_end(_)
trim_end(s) ==
    IF s /= <<>> /\ IsSpace(s[Len(s)]) THEN trim_end(SubSeq(s, 1, Len(s) - 1)) ELSE s

\* str::trim
trim(s) == trim_end(trim_start(s))

\* str::starts_with
starts_with(s, p) == Len(p) <= Len(s) /\ SubSeq(s, 1, Len(p)) = p

\* str::split_once('='): <<found, before, after>>
split_once(s) ==
    IF \E i \in 1..Len(s) : s[i] = "="
    THEN LET i == CHOOSE i \in 1..Len(s) :
                     s[i] = "=" /\ \A j \in 1..(i - 1) : s[j] /= "="
         IN  <<TRUE, SubSeq(s, 1, i - 1), SubSeq(s, i + 1, Len(s))>>
    ELSE <<FALSE, <<>>, <<>>>>

\* byte-wise lexicographic order of String (the key order of BTreeMap)
RECURSIVE StrLess(_, _)
StrLess(a, b) ==
    IF b = <<>> THEN FALSE
    ELSE IF a = <<>> THEN TRUE
    ELSE IF Head(a) /= Head(b) THEN Ord(Head(a)) < Ord(Head(b))
    ELSE StrLess(Tail(a), Tail(b))

NoFile == [exists |-> FALSE, lines |-> <<>>]
File(ls) == [exists |-> TRUE, lines |-> ls]

----------------------------------------------------------------------------
(* Provider (lines 34-62) *)

W_gemini == <<"g", "e", "m", "i", "n", "i">>
W_google == <<"g", "o", "o", "g", "l", "e">>
W_zai == <<"z", "a", "i">>
W_z_dot_ai == <<"z", ".", "a", "i">>
W_z_dash_ai == <<"z", "-", "a", "i">>

NLSH_PROVIDER == <<"N", "L", "S", "H", "_", "P", "R", "O", "V", "I", "D", "E", "R">>
GEMINI_API_KEY == <<"G", "E", "M", "I", "N", "I", "_", "A", "P", "I", "_", "K", "E", "Y">>
ZAI_API_KEY == <<"Z", "A", "I", "_", "A", "P", "I", "_", "K", "E", "Y">>

Providers == {"Gemini", "Zai"}

\* a mutation of from_str: the match without to_lowercase
from_str_case_sensitive(value) ==
    IF value \in {W_gemini, W_google} THEN "Gemini"
    ELSE IF value \in {W_zai, W_z_dot_ai, W_z_dash_ai} THEN "Zai"
    ELSE "None"

\* Provider::from_str: Option<Provider>, "None" for None
from_str(value) ==
    LET v == to_lowercase(value)
    IN  IF v \in {W_gemini, W_google} THEN "Gemini"
        ELSE IF v \in {W_zai, W_z_dot_ai, W_z_dash_ai} THEN "Zai"
        ELSE "None"

\* a mutation of env_key: one credential key shared by the providers
env_key_shared(p) == GEMINI_API_KEY

\* Provider::env_key
env_key(p) == IF p = "Gemini" THEN GEMINI_API_KEY ELSE ZAI_API_KEY

\* Provider::name
name(p) == IF p = "Gemini" THEN W_gemini ELSE W_zai

----------------------------------------------------------------------------
(* The process environment: a function from the names that are set *)

NoEnv == [k \in {} |-> <<>>]

\* env::set_var panics on an empty name and on a name holding '='
set_var_panics(k) == k = <<>> \/ \E i \in 1..Len(k) : k[i] = "="

\* a mutation of set_var: a name that is set keeps its value
set_var_keep(env, k, v) ==
    [x \in DOMAIN env \cup {k} |-> IF x \in DOMAIN env THEN env[x] ELSE v]

\* env::set_var on an accepted name
set_var(env, k, v) ==
    [x \in DOMAIN env \cup {k} |-> IF x = k THEN v ELSE env[x]]

----------------------------------------------------------------------------
(* Credential store (lines 91-177) *)

\* the loop of load_env_file over content.lines(), lines 106-114;
\* st = [env, panicked]: a panic of set_var ends the process
RECURSIVE load_lines(_, _)
load_lines(ls, st) ==
    IF ls = <<>> \/ st.panicked THEN st
    ELSE LET trimmed == trim(Head(ls))
             kv == split_once(trimmed)
         IN  IF trimmed = <<>> \/ Head(trimmed) = "#"
             THEN load_lines(Tail(ls), st)
             ELSE IF ~kv[1] THEN load_lines(Tail(ls), st)
             ELSE IF set_var_panics(trim(kv[2]))
             THEN [st EXCEPT !.panicked = TRUE]
             ELSE load_lines(Tail(ls),
                      [st EXCEPT !.env = set_var(st.env, trim(kv[2]), trim(kv[3]))])

\* load_env_file: [env, panicked]; readOk = FALSE is fs::read_to_string
\* failing, which main discards with .ok()
load_env_file(hasHome, file, readOk, env) ==
    IF ~hasHome \/ ~file.exists \/ ~readOk
    THEN [env |-> env, panicked |-> FALSE]
    ELSE load_lines(file.lines, [env |-> env, panicked |-> FALSE])

\* lines 138-142: the BTreeMap built from the file's lines
RECURSIVE parse_vars(_, _)
parse_vars(ls, vs) ==
    IF ls = <<>> THEN vs
    ELSE LET kv == split_once(Head(ls))
         IN  parse_vars(Tail(ls),
                 IF kv[1] THEN set_var(vs, trim(kv[2]), trim(kv[3])) ELSE vs)

\* a mutation of render: the entries in descending key order
RECURSIVE render_descending(_)
render_descending(vs) ==
    IF DOMAIN vs = {} THEN <<>>
    ELSE LET k == CHOOSE k \in DOMAIN vs :
                      \A j \in DOMAIN vs \ {k} : StrLess(j, k)
         IN  <<k \o <<"=">> \o vs[k]>>
             \o render_descending([x \in DOMAIN vs \ {k} |-> vs[x]])

\* lines 146-149: one "k=v" line per entry, in key order
RECURSIVE render(_)
render(vs) ==
    IF DOMAIN vs = {} THEN <<>>
    ELSE LET k == CHOOSE k \in DOMAIN vs :
                      \A j \in DOMAIN vs \ {k} : StrLess(k, j)
         IN  <<k \o <<"=">> \o vs[k]>>
             \o render([x \in DOMAIN vs \ {k} |-> vs[x]])

\* lines 146-150: the text written to the file, each rendered line followed
\* by a newline
RECURSIVE rendered_text(_)
rendered_text(ls) ==
    IF ls = <<>> THEN <<>>
    ELSE Head(ls) \o <<"\n">> \o rendered_text(Tail(ls))

\* str::lines (lines 106, 138): the text split at newlines, a newline at the
\* end opening no further line
RECURSIVE lines(_)
lines(content) ==
    IF content = <<>> THEN <<>>
    ELSE LET at == {i \in 1..Len(content) : content[i] = "\n"}
         IN  IF at = {} THEN <<content>>
             ELSE LET i == CHOOSE i \in at : \A j \in at : i <= j
                  IN  <<SubSeq(content, 1, i - 1)>>
                      \o lines(SubSeq(content, i + 1, Len(content)))

\* a mutation of read_vars: the file is not read before the merge
read_vars_nothing(file) == NoEnv

\* lines 135-143: the map write_env_var reads from the file as it is now
read_vars(file) == IF file.exists THEN parse_vars(file.lines, NoEnv) ELSE NoEnv

\* lines 144-149: the content rendered from the map read, with key set
merge_render(vs, key, value) == render(set_var(vs, key, value))

\* the new content of the config file, lines 135-149
merged_content(key, value, file) == merge_render(read_vars(file), key, value)

\* a mutation of write_env_var: success is reported and nothing is written
write_env_var_skipped(hasHome, key, value, file, ioOk) == [ok |-> TRUE, file |-> file]

\* write_env_var: [ok, file]; ioOk = FALSE is one of its fs calls failing,
\* which leaves the file as it was
write_env_var(hasHome, key, value, file, ioOk) ==
    IF ~hasHome THEN [ok |-> TRUE, file |-> file]
    ELSE IF ~ioOk THEN [ok |-> FALSE, file |-> file]
    ELSE [ok |-> TRUE, file |-> File(merged_content(key, value, file))]

rc_files == <<".zshrc", ".zprofile", ".bashrc", ".bash_profile">>

W_export == <<"e", "x", "p", "o", "r", "t", " ">>

\* line 160
export_line(key, value) == W_export \o key \o <<"=", "\"">> \o value \o <<"\"">>

\* the prefix tested at line 168
export_prefix(key) == W_export \o key \o <<"=">>

\* a mutation of rewrite_rc: the line is appended and nothing is removed
rewrite_rc_append_only(key, value, file) ==
    File((IF file.exists THEN file.lines ELSE <<>>) \o <<export_line(key, value)>>)

\* the body of the loop of set_shell_env for one file, lines 162-173
rewrite_rc(key, value, file) ==
    LET keep(line) == ~starts_with(trim_start(line), export_prefix(key))
        content == IF file.exists THEN SelectSeq(file.lines, keep) ELSE <<>>
    IN  File(content \o <<export_line(key, value)>>)

\* set_shell_env: [ok, files]; nOk is the number of rc files rewritten before
\* an fs call fails (Len(rc_files): none fails)
set_shell_env(hasHome, key, value, files, nOk) ==
    IF ~hasHome THEN [ok |-> TRUE, files |-> files]
    ELSE [ok |-> nOk = Len(rc_files),
          files |-> [f \in DOMAIN files |->
                        IF \E i \in 1..nOk : rc_files[i] = f
                        THEN rewrite_rc(key, value, files[f]) ELSE files[f]]]

----------------------------------------------------------------------------
(* Provider resolution and the credential check (lines 179-197) *)

\* a mutation of current_provider: the selection is not consulted
current_provider_default(env) == "Gemini"

\* current_provider
current_provider(env) ==
    IF NLSH_PROVIDER \in DOMAIN env /\ from_str(env[NLSH_PROVIDER]) /= "None"
    THEN from_str(env[NLSH_PROVIDER])
    ELSE "Gemini"

\* a mutation of ensure_api_key: any value that is set is accepted
ensure_api_key_set_only(p, env) ==
    IF env_key(p) \in DOMAIN env
    THEN [tag |-> "Ok", val |-> env[env_key(p)]]
    ELSE [tag |-> "Err", val |-> env_key(p)]

\* ensure_api_key: Ok(value), or Err with the message's key name
ensure_api_key(p, env) ==
    LET key == env_key(p)
    IN  IF key \in DOMAIN env /\ trim(env[key]) /= <<>>
        THEN [tag |-> "Ok", val |-> env[key]]
        ELSE [tag |-> "Err", val |-> key]

----------------------------------------------------------------------------
(* Confirmation wait and command executor (lines 281-291, 343-360) *)

\* a mutation of confirm_step: any key event is taken as the accept key
confirm_step_any_key(ev) ==
    IF ev \in {"Enter", "Char"} THEN "Confirmed"
    ELSE IF ev = "Esc" THEN "Cancelled"
    ELSE "Prompting"

\* one pass of the loop at lines 343-351 on the event read: Enter breaks
\* with Some(()), Esc with None, anything else goes round again
confirm_step(ev) ==
    IF ev = "Enter" THEN "Confirmed"
    ELSE IF ev = "Esc" THEN "Cancelled"
    ELSE "Prompting"

\* a mutation of should_run: the command is run whatever was decided
should_run_always(d) == TRUE

\* line 355: decision.is_some()
should_run(d) == d = "Confirmed"

\* a mutation of run_command: the child's code is reported as success
run_command_ignores_code(o) ==
    IF o.kind \in {"spawn_err", "wait_err"} THEN [ok |-> FALSE, code |-> 0]
    ELSE [ok |-> TRUE, code |-> 0]

\* run_command on what the operating system makes of the child:
\* status.code().unwrap_or(1)
run_command(o) ==
    IF o.kind \in {"spawn_err", "wait_err"} THEN [ok |-> FALSE, code |-> 0]
    ELSE IF o.kind = "exit" THEN [ok |-> TRUE, code |-> o.code]
    ELSE [ok |-> TRUE, code |-> 1]

----------------------------------------------------------------------------
(* Bounds and inputs *)

MaxInvocations == 2
MaxIgnored == 2
MaxChildCode == 2

None == [some |-> FALSE, val |-> <<>>]
Some(v) == [some |-> TRUE, val |-> v]

\* values of --set-api-key: a plain key, and one with a trailing blank
ApiKeys == {<<"a">>, <<"b", " ">>}

\* what Args::parse can return (clap admits only gemini and zai, line 22):
\* no argument, a prompt, either flag alone, and the flags together
ArgsSet ==
    { [set_provider |-> None, set_api_key |-> None, prompt |-> <<>>],
      [set_provider |-> None, set_api_key |-> None, prompt |-> <<"list", "files">>],
      [set_provider |-> Some(W_gemini), set_api_key |-> None, prompt |-> <<>>],
      [set_provider |-> Some(W_zai), set_api_key |-> Some(<<"a">>),
       prompt |-> <<"list", "files">>],
      [set_provider |-> None, set_api_key |-> Some(<<"a">>), prompt |-> <<>>],
      [set_provider |-> None, set_api_key |-> Some(<<"b", " ">>),
       prompt |-> <<"list", "files">>] }

W_openai == <<"o", "p", "e", "n", "a", "i">>

\* the environment an invocation starts in: whether the home directory
\* resolves, and the variables of the calling shell
Environments ==
    { [home |-> TRUE, vars |-> (GEMINI_API_KEY :> <<" ">>)],
      [home |-> TRUE,
       vars |-> (NLSH_PROVIDER :> <<"Z", "A", "I">>) @@ (ZAI_API_KEY :> <<" ", "k", " ">>)],
      [home |-> FALSE,
       vars |-> (NLSH_PROVIDER :> W_openai) @@ (GEMINI_API_KEY :> <<"k">>)] }

L_comment == <<"#", " ", "n", "l", "s", "h">>
L_provider_spaced == <<" ">> \o NLSH_PROVIDER \o <<" ", "=", " ">> \o W_z_dot_ai \o <<" ">>
L_gemini_key == GEMINI_API_KEY \o <<"=", "g">>
L_zai_key == ZAI_API_KEY \o <<"=", "z">>
L_empty_key == <<"=", "x">>
L_alias == <<"a", "l", "i", "a", "s", " ", "l">>

RcNames == {rc_files[i] : i \in 1..Len(rc_files)}

\* the files the first invocation finds: none; a hand-edited config file
\* with a populated .zshrc; a config file with a line whose key is empty
InitFiles ==
    { [cfg |-> NoFile, rc |-> [f \in RcNames |-> NoFile]],
      [cfg |-> File(<<L_comment, L_provider_spaced, L_gemini_key, L_zai_key>>),
       rc |-> [f \in RcNames |->
                 IF f = rc_files[1]
                 THEN File(<<L_alias, export_line(GEMINI_API_KEY, <<"g">>),
                             <<" ", " ">> \o export_prefix(ZAI_API_KEY) \o <<"o">>,
                             export_line(NLSH_PROVIDER, W_gemini)>>)
                 ELSE IF f = rc_files[3] THEN File(<<>>)
                 ELSE NoFile]],
      [cfg |-> File(<<L_gemini_key, L_empty_key>>), rc |-> [f \in RcNames |-> NoFile]] }

ReadResults == {"Enter", "Esc", "Char", "Resize", "Err"}

Commands == {"ls"}

ChildOutcomes ==
    {[kind |-> "spawn_err", code |-> 0], [kind |-> "wait_err", code |-> 0],
     [kind |-> "signal", code |-> 0]}
    \cup {[kind |-> "exit", code |-> c] : c \in 0..MaxChildCode}

NoChild == [kind |-> "none", code |-> 0]
NoKey == [tag |-> "None", val |-> <<>>]

----------------------------------------------------------------------------
(* Invocations of the tool: main, lines 293-363 *)

files == <<cfg, rc>>
terminal == <<raw, acquired, released, decision, lastEvent, events>>
subprocess == <<child, spawned>>
inputs == <<ninv, home, args>>
resolved == <<provider, api_key, command>>

\* no invocation has started
Fresh ==
    /\ ninv = 0
    /\ pc = "idle"
    /\ home = TRUE
    /\ args = [set_provider |-> None, set_api_key |-> None, prompt |-> <<>>]
    /\ provider = "None"
    /\ api_key = NoKey
    /\ command = ""
    /\ raw = FALSE
    /\ acquired = 0
    /\ released = 0
    /\ decision = "None"
    /\ lastEvent = "None"
    /\ events = 0
    /\ child = NoChild
    /\ spawned = 0
    /\ netCalls = 0
    /\ out = <<>>
    /\ exitStatus = -1

Init ==
    /\ \E f \in InitFiles : cfg = f.cfg /\ rc = f.rc
    /\ environ = NoEnv
    /\ Fresh
    /\ probe = <<>>

\* the process ends with status `code`
Exit(code) == pc' = "done" /\ exitStatus' = code

\* main returns Err(e): the runtime prints "Error: {e:?}" and exits with 1
Fail(printed, e) ==
    /\ out' = printed \o <<<<"stderr", "Error", e>>>>
    /\ Exit(1)

\* the operator starts the tool in a cooked terminal
Invoke(a, e) ==
    /\ pc \in {"idle", "done"}
    /\ ninv < MaxInvocations
    /\ ninv' = ninv + 1
    /\ pc' = "load"
    /\ args' = a
    /\ home' = e.home
    /\ environ' = e.vars
    /\ provider' = "None"
    /\ api_key' = NoKey
    /\ command' = ""
    /\ raw' = FALSE
    /\ acquired' = 0
    /\ released' = 0
    /\ decision' = "None"
    /\ lastEvent' = "None"
    /\ events' = 0
    /\ child' = NoChild
    /\ spawned' = 0
    /\ netCalls' = 0
    /\ out' = <<>>
    /\ exitStatus' = -1
    /\ UNCHANGED <<files, probe>>

\* lines 294-295: load_env_file().ok(), then Args::parse()
LoadEnv(readOk) ==
    /\ pc = "load"
    /\ LET r == load_env_file(home, cfg, readOk, environ)
       IN  /\ environ' = r.env
           /\ IF r.panicked
              THEN /\ out' = Append(out, <<"stderr", "panic", <<>>>>)
                   /\ Exit(101)
              ELSE /\ pc' = "dispatch"
                   /\ UNCHANGED <<out, exitStatus>>
    /\ UNCHANGED <<files, inputs, resolved, terminal, subprocess, netCalls, probe>>

\* write_env_var(key, value)? then set_shell_env(key, value)? then the
\* confirmation line: lines 300-303 and 308-311
Persist(key, value, line, ioOk, nOk) ==
    LET w == write_env_var(home, key, value, cfg, ioOk)
        s == set_shell_env(home, key, value, rc, nOk)
    IN  /\ cfg' = w.file
        /\ IF ~w.ok
           THEN UNCHANGED rc /\ Fail(out, "io")
           ELSE /\ rc' = s.files
                /\ IF ~s.ok
                   THEN Fail(out, "io")
                   ELSE out' = Append(out, line) /\ Exit(0)

\* lines 297-304
SetProvider(ioOk, nOk) ==
    /\ pc = "dispatch"
    /\ args.set_provider.some
    /\ LET p == from_str(args.set_provider.val)
       IN  IF p = "None"
           THEN UNCHANGED files /\ Fail(out, "provider")
           ELSE Persist(NLSH_PROVIDER, name(p), <<"stdout", "provider_set", name(p)>>,
                        ioOk, nOk)
    /\ UNCHANGED <<inputs, environ, resolved, terminal, subprocess, netCalls, probe>>

\* lines 306-312
SetApiKey(ioOk, nOk) ==
    /\ pc = "dispatch"
    /\ ~args.set_provider.some
    /\ args.set_api_key.some
    /\ LET p == current_provider(environ)
       IN  Persist(env_key(p), args.set_api_key.val, <<"stdout", "key_saved", name(p)>>,
                   ioOk, nOk)
    /\ UNCHANGED <<inputs, environ, resolved, terminal, subprocess, netCalls, probe>>

\* lines 314-317
Usage ==
    /\ pc = "dispatch"
    /\ ~args.set_provider.some
    /\ ~args.set_api_key.some
    /\ args.prompt = <<>>
    /\ out' = Append(out, <<"stderr", "usage", <<>>>>)
    /\ Exit(0)
    /\ UNCHANGED <<files, inputs, environ, resolved, terminal, subprocess, netCalls, probe>>

\* lines 319-321: env::current_dir()? and build_prompt
BuildPrompt(cwdOk) ==
    /\ pc = "dispatch"
    /\ ~args.set_provider.some
    /\ ~args.set_api_key.some
    /\ args.prompt /= <<>>
    /\ IF cwdOk
       THEN pc' = "credential" /\ UNCHANGED <<out, exitStatus>>
       ELSE Fail(out, "io")
    /\ UNCHANGED <<files, inputs, environ, resolved, terminal, subprocess, netCalls, probe>>

\* lines 323-327
ResolveCredential ==
    /\ pc = "credential"
    /\ provider' = current_provider(environ)
    /\ api_key' = ensure_api_key(provider', environ)
    /\ IF api_key'.tag = "Err"
       THEN Fail(Append(out, <<"stdout", "missing", api_key'.val>>), "missing")
       ELSE pc' = "request" /\ UNCHANGED <<out, exitStatus>>
    /\ UNCHANGED <<files, inputs, environ, command, terminal, subprocess, netCalls, probe>>

\* lines 329-336: gemini_request or zai_request, one HTTP request either way
Request(ok, cmd) ==
    /\ pc = "request"
    /\ netCalls' = netCalls + 1
    /\ IF ok
       THEN /\ command' = cmd
            /\ pc' = "show"
            /\ UNCHANGED <<out, exitStatus>>
       ELSE /\ UNCHANGED command
            /\ Fail(Append(out, <<"stdout", "error", <<>>>>), "provider")
    /\ UNCHANGED <<files, inputs, environ, provider, api_key, terminal, subprocess, probe>>

\* lines 338-340
ShowCommand(flushOk) ==
    /\ pc = "show"
    /\ LET shown == out \o <<<<"stdout", "arrow", <<>>>>, <<"stdout", "prompt", <<>>>>>>
       IN  IF flushOk
           THEN out' = shown /\ pc' = "enable" /\ UNCHANGED exitStatus
           ELSE Fail(shown, "io")
    /\ UNCHANGED <<files, inputs, environ, resolved, terminal, subprocess, netCalls, probe>>

\* line 342: terminal::enable_raw_mode()?
EnableRaw(ok) ==
    /\ pc = "enable"
    /\ IF ok
       THEN /\ raw' = TRUE
            /\ acquired' = acquired + 1
            /\ decision' = "Prompting"
            /\ pc' = "wait"
            /\ UNCHANGED <<out, exitStatus>>
       ELSE /\ UNCHANGED <<raw, acquired, decision>>
            /\ Fail(out, "io")
    /\ UNCHANGED <<files, inputs, environ, resolved, released, lastEvent, events,
                   subprocess, netCalls, probe>>

\* lines 343-351: one event::read()? of the loop
ReadEvent(ev) ==
    /\ pc = "wait"
    /\ confirm_step(ev) = "Prompting" /\ ev /= "Err" => events < MaxIgnored
    /\ lastEvent' = ev
    /\ events' = events + 1
    /\ IF ev = "Err"
       THEN UNCHANGED decision /\ Fail(out, "io")
       ELSE /\ decision' = confirm_step(ev)
            /\ pc' = IF decision' = "Prompting" THEN "wait" ELSE "restore"
            /\ UNCHANGED <<out, exitStatus>>
    /\ UNCHANGED <<files, inputs, environ, resolved, raw, acquired, released,
                   subprocess, netCalls, probe>>

\* a mutation of DisableRaw: a failure of disable_raw_mode is ignored and
\* the decision acted on with the terminal as it is
DisableRaw_unchecked(ok) ==
    /\ pc = "restore"
    /\ raw' = ~ok
    /\ released' = IF ok THEN released + 1 ELSE released
    /\ out' = Append(out, <<"stdout", "newline", <<>>>>)
    /\ IF should_run(decision)
       THEN pc' = "run" /\ UNCHANGED exitStatus
       ELSE Exit(0)
    /\ UNCHANGED <<files, inputs, environ, resolved, acquired, decision, lastEvent,
                   events, subprocess, netCalls, probe>>

\* lines 352-355 and 362: terminal::disable_raw_mode()?, the newline, and
\* the end of main when nothing is to be run
DisableRaw(ok) ==
    /\ pc = "restore"
    /\ IF ok
       THEN /\ raw' = FALSE
            /\ released' = released + 1
            /\ out' = Append(out, <<"stdout", "newline", <<>>>>)
            /\ IF should_run(decision)
               THEN pc' = "run" /\ UNCHANGED exitStatus
               ELSE Exit(0)
       ELSE /\ UNCHANGED <<raw, released>>
            /\ Fail(out, "io")
    /\ UNCHANGED <<files, inputs, environ, resolved, acquired, decision, lastEvent,
                   events, subprocess, netCalls, probe>>

\* lines 356-362: run_command(&command)?, exit(code) when code /= 0
RunCommand(o) ==
    /\ pc = "run"
    /\ child' = o
    /\ spawned' = IF o.kind = "spawn_err" THEN spawned ELSE spawned + 1
    /\ LET r == run_command(o)
       IN  IF r.ok
           THEN Exit(r.code) /\ UNCHANGED out
           ELSE Fail(out, "io")
    /\ UNCHANGED <<files, inputs, environ, resolved, terminal, netCalls, probe>>

Next ==
    \/ \E a \in ArgsSet, e \in Environments : Invoke(a, e)
    \/ \E readOk \in BOOLEAN : LoadEnv(readOk)
    \/ \E ioOk \in BOOLEAN, nOk \in 0..Len(rc_files) : SetProvider(ioOk, nOk)
    \/ \E ioOk \in BOOLEAN, nOk \in 0..Len(rc_files) : SetApiKey(ioOk, nOk)
    \/ Usage
    \/ \E cwdOk \in BOOLEAN : BuildPrompt(cwdOk)
    \/ ResolveCredential
    \/ \E ok \in BOOLEAN, cmd \in Commands : Request(ok, cmd)
    \/ \E flushOk \in BOOLEAN : ShowCommand(flushOk)
    \/ \E ok \in BOOLEAN : EnableRaw(ok)
    \/ \E ev \in ReadResults : ReadEvent(ev)
    \/ \E ok \in BOOLEAN : DisableRaw(ok)
    \/ \E o \in ChildOutcomes : RunCommand(o)

Spec == Init /\ [][Next]_vars

----------------------------------------------------------------------------
(* The credential store as pure functions of the file's content:          *)
(* write_env_var and load_env_file on a bounded set of config files       *)

MaxStoreLines == 2
MaxSets == 2

StoreKeys == {<<"K">>, <<"J">>}

StoreValues == {<<"v">>, <<"w">>}

\* K=v, a padded line, a comment holding '=', a comment, a line without
\* '=', a blank line, a line with an empty key, a value holding '='
StoreLines ==
    { <<"K", "=", "v">>,
      <<" ", "J", " ", "=", " ", "u", " ">>,
      <<"#", "K", "=", "c">>,
      <<"#", " ", "n">>,
      <<"x">>,
      <<>>,
      <<"=", "x">>,
      <<"J", "=", "u", "=", "u">> }

RECURSIVE SeqsUpTo(_, _)
SeqsUpTo(S, n) ==
    IF n = 0 THEN {<<>>}
    ELSE LET shorter == SeqsUpTo(S, n - 1)
         IN  shorter \cup {Append(q, x) : q \in shorter, x \in S}

StoreFiles == {NoFile} \cup {File(ls) : ls \in SeqsUpTo(StoreLines, MaxStoreLines)}

InitStore ==
    /\ cfg \in StoreFiles
    /\ rc = [f \in RcNames |-> NoFile]
    /\ environ = NoEnv
    /\ Fresh
    /\ probe = [init |-> cfg, sets |-> <<>>, loaded |-> FALSE, panicked |-> FALSE,
                prev |-> cfg, text |-> <<>>]

\* set(key, value)
StoreSet(k, v) ==
    /\ ~probe.loaded
    /\ Len(probe.sets) < MaxSets
    /\ cfg' = write_env_var(TRUE, k, v, cfg, TRUE).file
    /\ probe' = [probe EXCEPT !.sets = Append(@, [k |-> k, v |-> v]),
                              !.prev = cfg,
                              !.text = rendered_text(merged_content(k, v, cfg))]
    /\ UNCHANGED <<rc, inputs, pc, environ, resolved, terminal, subprocess, netCalls,
                   out, exitStatus>>

\* load() into an empty environment
StoreLoad ==
    /\ ~probe.loaded
    /\ LET r == load_env_file(TRUE, cfg, TRUE, NoEnv)
       IN  /\ environ' = r.env
           /\ probe' = [probe EXCEPT !.loaded = TRUE, !.panicked = r.panicked]
    /\ UNCHANGED <<files, inputs, pc, resolved, terminal, subprocess, netCalls,
                   out, exitStatus>>

NextStore ==
    \/ \E k \in StoreKeys, v \in StoreValues : StoreSet(k, v)
    \/ StoreLoad

SpecStore == InitStore /\ [][NextStore]_vars

----------------------------------------------------------------------------
(* Shell-profile mirroring as a pure function: set_shell_env on a bounded *)
(* set of shell-startup files                                             *)

MaxShellLines == 2
MaxCalls == 2

\* K is a proper prefix of the other key
ShellKeys == {<<"K">>, <<"K", "K">>}
ShellValues == {<<"v">>, <<"w">>}

\* export K="v", an indented unquoted export of K, an export of KK, an
\* alias, a commented export, an export without '='
ShellLines ==
    { W_export \o <<"K", "=", "\"", "v", "\"">>,
      <<" ", " ">> \o W_export \o <<"K", "=", "x">>,
      W_export \o <<"K", "K", "=", "\"", "v", "\"">>,
      <<"a", "l", "i", "a", "s", " ", "l">>,
      <<"#", " ">> \o W_export \o <<"K", "=", "\"", "v", "\"">>,
      W_export \o <<"K">> }

ShellFiles == {NoFile} \cup {File(ls) : ls \in SeqsUpTo(ShellLines, MaxShellLines)}

InitShell ==
    /\ cfg = NoFile
    /\ \E c \in ShellFiles : rc = [f \in RcNames |-> c]
    /\ environ = NoEnv
    /\ Fresh
    /\ probe = [calls |-> <<>>]

\* mirrorToShellProfiles(key, value), every file written
Mirror(k, v) ==
    /\ Len(probe.calls) < MaxCalls
    /\ rc' = set_shell_env(TRUE, k, v, rc, Len(rc_files)).files
    /\ probe' = [calls |-> Append(probe.calls, [k |-> k, v |-> v])]
    /\ UNCHANGED <<cfg, inputs, pc, environ, resolved, terminal, subprocess, netCalls,
                   out, exitStatus>>

NextShell == \E k \in ShellKeys, v \in ShellValues : Mirror(k, v)

SpecShell == InitShell /\ [][NextShell]_vars

----------------------------------------------------------------------------
(* Provider resolution and the credential check as pure functions of the  *)
(* environment                                                            *)

\* every spelling of w in upper and lower case letters
RECURSIVE CaseVariants(_)
CaseVariants(w) ==
    IF w = <<>> THEN {<<>>}
    ELSE {<<c>> \o t : c \in {Head(w), UpperChar(Head(w))}, t \in CaseVariants(Tail(w))}

ZaiSpellings ==
    CaseVariants(W_zai) \cup CaseVariants(W_z_dot_ai) \cup CaseVariants(W_z_dash_ai)

GeminiSpellings == CaseVariants(W_gemini) \cup CaseVariants(W_google)

\* values of NLSH_PROVIDER no match arm names
OtherProviderValues ==
    { <<>>, W_openai, <<"z", "a", "i", "i">>, <<"z", "_", "a", "i">>,
      <<" ", "z", "a", "i">>, <<"z", "a", "i", " ">>, <<"g", "e", "m", "i", "n">> }

ProviderValues == ZaiSpellings \cup GeminiSpellings \cup OtherProviderValues

\* values of a credential variable: empty, blank, plain, padded, inner blank
CredentialValues ==
    { <<>>, <<" ">>, <<" ", " ">>, <<"k">>, <<" ", "k", " ">>, <<"a", " ", "b">> }

\* the environments: each of the three variables unset or set
ResolveEnvs ==
    LET Opt(S) == {None} \cup {Some(v) : v \in S}
        Bind(k, o) == IF o.some THEN (k :> o.val) ELSE NoEnv
    IN  { Bind(NLSH_PROVIDER, p) @@ Bind(GEMINI_API_KEY, g) @@ Bind(ZAI_API_KEY, z) :
              p \in Opt(ProviderValues), g \in Opt(CredentialValues),
              z \in Opt({<<"z">>, <<" ">>}) }

InitResolve ==
    /\ cfg = NoFile
    /\ rc = [f \in RcNames |-> NoFile]
    /\ environ \in ResolveEnvs
    /\ Fresh
    /\ probe = [provider |-> "None", checked |-> "None", result |-> NoKey]

\* resolveActiveProvider()
ResolveProvider ==
    /\ probe.provider = "None"
    /\ probe' = [probe EXCEPT !.provider = current_provider(environ)]
    /\ UNCHANGED <<files, inputs, pc, environ, resolved, terminal, subprocess,
                   netCalls, out, exitStatus>>

\* ensureCredential(p)
EnsureCredential(p) ==
    /\ probe.checked = "None"
    /\ probe' = [probe EXCEPT !.checked = p, !.result = ensure_api_key(p, environ)]
    /\ UNCHANGED <<files, inputs, pc, environ, resolved, terminal, subprocess,
                   netCalls, out, exitStatus>>

NextResolve ==
    \/ ResolveProvider
    \/ \E p \in Providers : EnsureCredential(p)

SpecResolve == InitResolve /\ [][NextResolve]_vars

----------------------------------------------------------------------------
(* Two invocations of the tool running at once, each in write_env_var on  *)
(* a key of its own: the read at lines 136-143 and the write at line 150  *)
(* are separate steps on the one config file                              *)

Writers == {1, 2}

InitRace ==
    /\ cfg \in StoreFiles
    /\ rc = [f \in RcNames |-> NoFile]
    /\ environ = NoEnv
    /\ Fresh
    /\ \E k \in [Writers -> StoreKeys], v \in [Writers -> StoreValues] :
          /\ k[1] /= k[2]
          /\ probe = [init |-> cfg, key |-> k, value |-> v,
                      at |-> [w \in Writers |-> "start"],
                      vars |-> [w \in Writers |-> NoEnv],
                      trace |-> <<>>]

\* lines 135-143 in invocation w
ReadVars(w) ==
    /\ probe.at[w] = "start"
    /\ probe' = [probe EXCEPT !.at[w] = "read",
                              !.vars[w] = read_vars(cfg),
                              !.trace = Append(@, <<w, "read">>)]
    /\ UNCHANGED <<files, inputs, pc, environ, resolved, terminal, subprocess,
                   netCalls, out, exitStatus>>

\* lines 144-151 in invocation w
WriteVars(w) ==
    /\ probe.at[w] = "read"
    /\ cfg' = File(merge_render(probe.vars[w], probe.key[w], probe.value[w]))
    /\ probe' = [probe EXCEPT !.at[w] = "written",
                              !.trace = Append(@, <<w, "write">>)]
    /\ UNCHANGED <<rc, inputs, pc, environ, resolved, terminal, subprocess,
                   netCalls, out, exitStatus>>

NextRace ==
    \/ \E w \in Writers : ReadVars(w)
    \/ \E w \in Writers : WriteVars(w)

SpecRace == InitRace /\ [][NextRace]_vars

----------------------------------------------------------------------------
(* load_env_file on a live environment, then provider resolution and the  *)
(* credential check, as at lines 294 and 323-324                          *)

MaxLoadLines == 2

\* provider and credential lines, plain, padded and with an empty value; a
\* commented provider line, a line with an empty key, a line without '='
LoadLines ==
    { NLSH_PROVIDER \o <<"=">> \o W_gemini,
      L_provider_spaced,
      L_gemini_key,
      GEMINI_API_KEY \o <<"=">>,
      L_zai_key,
      <<"#">> \o NLSH_PROVIDER \o <<"=">> \o W_zai,
      L_empty_key,
      L_alias }

LoadFiles == {NoFile} \cup {File(ls) : ls \in SeqsUpTo(LoadLines, MaxLoadLines)}

\* the variables of the calling shell: each of the three unset or set
LiveEnvs ==
    LET Opt(S) == {None} \cup {Some(v) : v \in S}
        Bind(k, o) == IF o.some THEN (k :> o.val) ELSE NoEnv
    IN  { Bind(NLSH_PROVIDER, p) @@ Bind(GEMINI_API_KEY, g) @@ Bind(ZAI_API_KEY, z) :
              p \in Opt({W_zai, W_openai}), g \in Opt({<<"k">>, <<" ">>}),
              z \in Opt({<<"y">>}) }

InitLoad ==
    /\ cfg \in LoadFiles
    /\ rc = [f \in RcNames |-> NoFile]
    /\ environ \in LiveEnvs
    /\ Fresh
    /\ probe = [live |-> environ, loaded |-> FALSE, readOk |-> FALSE,
                panicked |-> FALSE, provider |-> "None", result |-> NoKey]

\* line 294: load_env_file().ok()
LoadLive(readOk) ==
    /\ ~probe.loaded
    /\ LET r == load_env_file(TRUE, cfg, readOk, environ)
       IN  /\ environ' = r.env
           /\ probe' = [probe EXCEPT !.loaded = TRUE, !.readOk = readOk,
                                     !.panicked = r.panicked]
    /\ UNCHANGED <<files, inputs, pc, resolved, terminal, subprocess, netCalls,
                   out, exitStatus>>

\* lines 323-324: current_provider() and ensure_api_key(provider)
ResolveLoaded ==
    /\ probe.loaded /\ ~probe.panicked
    /\ probe.provider = "None"
    /\ LET p == current_provider(environ)
       IN  probe' = [probe EXCEPT !.provider = p, !.result = ensure_api_key(p, environ)]
    /\ UNCHANGED <<files, inputs, pc, environ, resolved, terminal, subprocess,
                   netCalls, out, exitStatus>>

NextLoad ==
    \/ \E readOk \in BOOLEAN : LoadLive(readOk)
    \/ ResolveLoaded

SpecLoad == InitLoad /\ [][NextLoad]_vars

----------------------------------------------------------------------------
(* Invocations one after another on the same files, each taken as a whole *)
(* from load to its exit or, for the generation flow, to the credential   *)
(* check of lines 323-327                                                *)

MaxRuns == 3

\* values of --set-api-key: plain, and with a trailing blank
SetupKeys == {<<"a">>, <<"b", " ">>}

\* what the file system does in one invocation: nothing fails; the read of
\* load fails; an fs call of write_env_var fails; the first fs call of
\* set_shell_env fails
NoFault == [readOk |-> TRUE, ioOk |-> TRUE, nOk |-> Len(rc_files)]

\* the conditions an invocation runs in: each environment with a sound
\* file system, and a fault in one environment or another
Conditions ==
    {[env |-> e, fs |-> NoFault] : e \in Environments}
    \cup {[env |-> e, fs |-> [NoFault EXCEPT !.readOk = FALSE]] :
             e \in {x \in Environments : x.home /\ GEMINI_API_KEY \in DOMAIN x.vars}}
    \cup {[env |-> e, fs |-> f] :
             e \in {x \in Environments : x.home /\ ZAI_API_KEY \in DOMAIN x.vars},
             f \in {[NoFault EXCEPT !.ioOk = FALSE], [NoFault EXCEPT !.nOk = 0]}}

NoGen == [reached |-> FALSE, provider |-> "None", result |-> NoKey]

NoSetup ==
    [runs |-> 0, stage |-> 0, p |-> "None", k |-> <<>>, clean |-> FALSE,
     gen |-> NoGen, genClean |-> FALSE]

\* probe: `stage` 1 after a set-provider invocation that exited 0, 2 after
\* a set-API-key invocation that exited 0 following it, with the provider
\* and the key given; `clean`: the home directory resolved and load read the
\* config file in these invocations; `gen`: the generation invocation that
\* has just run, and whether its home directory resolved and its load read
\* the file; `runs`: the invocations so far. No process is alive between the
\* invocations: environ is empty
InitSetup ==
    /\ \E f \in InitFiles : cfg = f.cfg /\ rc = f.rc
    /\ environ = NoEnv
    /\ Fresh
    /\ probe = NoSetup

\* write_env_var(key, value)? then set_shell_env(key, value)?, lines 300-301
\* and 308-309: the files afterwards and the exit status
persist(hasHome, key, value, ioOk, nOk) ==
    LET w == write_env_var(hasHome, key, value, cfg, ioOk)
    IN  IF ~w.ok THEN [cfg |-> w.file, rc |-> rc, status |-> 1]
        ELSE LET sh == set_shell_env(hasHome, key, value, rc, nOk)
             IN  [cfg |-> w.file, rc |-> sh.files,
                  status |-> IF sh.ok THEN 0 ELSE 1]

\* `nlsh --set-provider value`, lines 293-304
RunSetProvider(value, e, f) ==
    /\ probe.runs < MaxRuns
    /\ \E l \in {load_env_file(e.home, cfg, f.readOk, e.vars)} :
          IF l.panicked
          THEN /\ probe' = [probe EXCEPT !.runs = @ + 1]
               /\ UNCHANGED files
          ELSE \E r \in {persist(e.home, NLSH_PROVIDER, name(from_str(value)),
                                 f.ioOk, f.nOk)} :
                  /\ cfg' = r.cfg
                  /\ rc' = r.rc
                  /\ probe' = IF r.status = 0
                              THEN [NoSetup EXCEPT !.runs = probe.runs + 1,
                                                   !.stage = 1, !.p = from_str(value),
                                                   !.clean = e.home]
                              ELSE [NoSetup EXCEPT !.runs = probe.runs + 1]
    /\ UNCHANGED <<inputs, pc, environ, resolved, terminal, subprocess, netCalls,
                   out, exitStatus>>

\* `nlsh --set-api-key value`, lines 293-312
RunSetApiKey(value, e, f) ==
    /\ probe.runs < MaxRuns
    /\ \E l \in {load_env_file(e.home, cfg, f.readOk, e.vars)} :
          IF l.panicked
          THEN /\ probe' = [probe EXCEPT !.runs = @ + 1]
               /\ UNCHANGED files
          ELSE \E r \in {persist(e.home, env_key(current_provider(l.env)), value,
                                 f.ioOk, f.nOk)} :
                  /\ cfg' = r.cfg
                  /\ rc' = r.rc
                  /\ probe' = IF r.status = 0 /\ probe.stage >= 1
                              THEN [probe EXCEPT !.runs = @ + 1,
                                                 !.stage = 2, !.k = value,
                                                 !.clean = @ /\ e.home /\ f.readOk,
                                                 !.gen = NoGen, !.genClean = FALSE]
                              ELSE [NoSetup EXCEPT !.runs = probe.runs + 1]
    /\ UNCHANGED <<inputs, pc, environ, resolved, terminal, subprocess, netCalls,
                   out, exitStatus>>

\* `nlsh list files` as far as the credential check, lines 293-327
RunGenerate(e, readOk) ==
    /\ probe.runs < MaxRuns
    /\ \E l \in {load_env_file(e.home, cfg, readOk, e.vars)} :
          probe' = [probe EXCEPT
                       !.runs = @ + 1,
                       !.gen = IF l.panicked THEN NoGen
                               ELSE [reached |-> TRUE,
                                     provider |-> current_provider(l.env),
                                     result |-> ensure_api_key(current_provider(l.env),
                                                               l.env)],
                       !.genClean = e.home /\ readOk]
    /\ UNCHANGED <<files, inputs, pc, environ, resolved, terminal, subprocess,
                   netCalls, out, exitStatus>>

NextSetup ==
    \/ \E value \in {W_gemini, W_zai}, c \in Conditions :
          RunSetProvider(value, c.env, c.fs)
    \/ \E value \in SetupKeys, c \in Conditions :
          RunSetApiKey(value, c.env, c.fs)
    \/ \E c \in {x \in Conditions : x.fs.ioOk /\ x.fs.nOk = Len(rc_files)} :
          RunGenerate(c.env, c.fs.readOk)

SpecSetup == InitSetup /\ [][NextSetup]_vars

----------------------------------------------------------------------------
(* Properties *)

Printed(kind) == \E i \in 1..Len(out) : out[i][2] = kind

IsBlank(v) == \A i \in 1..Len(v) : v[i] = " "

\* C1: once the terminal has been put into raw mode it is cooked again when
\* the invocation has terminated, on every exit path, and every acquisition
\* of raw mode is paired with one release.
C1_RawModeRestored ==
    pc = "done" => /\ ~raw
                   /\ acquired <= 1
                   /\ released = acquired

\* C2 as stated: at most one subprocess per run, only after the accept key
\* was read in the confirmation wait; after the cancel key no subprocess,
\* and the invocation exits with status 0.
C2_RunOnlyOnConfirm ==
    /\ spawned <= 1
    /\ spawned = 1 => decision = "Confirmed" /\ lastEvent = "Enter"
    /\ decision = "Cancelled" => spawned = 0
    /\ pc = "done" /\ decision = "Cancelled" => exitStatus = 0

\* C2 as amended: at most one subprocess per run, only after the accept key;
\* after the cancel key no subprocess, and the exit status is 0 when the
\* terminal mode was restored and 1 when restoring it failed.
C2_RunOnlyOnConfirm_Restored ==
    /\ spawned <= 1
    /\ spawned = 1 => decision = "Confirmed" /\ lastEvent = "Enter"
    /\ decision = "Cancelled" => spawned = 0
    /\ pc = "done" /\ decision = "Cancelled" =>
          exitStatus = IF released = 1 THEN 0 ELSE 1

\* a subprocess was spawned after ignored events and the accept key
C2_Witness ==
    pc = "done" /\ spawned = 1 /\ lastEvent = "Enter" /\ events = MaxIgnored + 1

\* C3: from Prompting the accept key leads to Confirmed, the cancel key to
\* Cancelled, any other key or event leaves Prompting, after any number of
\* ignored events; Confirmed and Cancelled are not left within the invocation.
C3_ConfirmationMachine ==
    [][ /\ pc = "wait" => decision = "Prompting"
        /\ pc = "wait" /\ events' = events + 1 =>
              decision' = CASE lastEvent' = "Enter" -> "Confirmed"
                            [] lastEvent' = "Esc" -> "Cancelled"
                            [] OTHER -> "Prompting"
        /\ decision \in {"Confirmed", "Cancelled"} /\ ninv' = ninv =>
              decision' = decision ]_vars

\* the accept key after MaxIgnored ignored events
C3_Witness ==
    decision = "Confirmed" /\ events = MaxIgnored + 1 /\ lastEvent = "Enter"

\* C4 as stated: exit status 0 on usage-only invocation, on cancellation and
\* when the child exits with 0; the child's code c when it is nonzero; 1 when
\* the child ends without a code.
C4_ExitStatus ==
    pc = "done" =>
        /\ Printed("usage") => exitStatus = 0
        /\ decision = "Cancelled" => exitStatus = 0
        /\ child.kind = "exit" => exitStatus = child.code
        /\ child.kind = "signal" => exitStatus = 1

\* C4 as amended: as stated, with cancellation giving exit status 0 once the
\* terminal mode has been restored.
C4_ExitStatus_Restored ==
    pc = "done" =>
        /\ Printed("usage") => exitStatus = 0
        /\ decision = "Cancelled" /\ released = 1 => exitStatus = 0
        /\ child.kind = "exit" => exitStatus = child.code
        /\ child.kind = "signal" => exitStatus = 1

\* the child exited with the largest code and the process with the same
C4_Witness ==
    pc = "done" /\ child.kind = "exit" /\ child.code = MaxChildCode
    /\ exitStatus = MaxChildCode

\* whether load's parse takes `line` as a definition of key k
DefinesKey(line, k) ==
    LET trimmed == trim(line)
        kv == split_once(trimmed)
    IN  trimmed /= <<>> /\ Head(trimmed) /= "#" /\ kv[1] /\ trim(kv[2]) = k

\* C5: set(K, V1), set(K, V2), load yields exactly one value for K, equal
\* to V2, and every other key load yields from the initial file keeps its
\* value.
C5_RoundTrip ==
    probe.loaded /\ Len(probe.sets) = 2 /\ probe.sets[1].k = probe.sets[2].k =>
        LET K == probe.sets[2].k
            before == load_env_file(TRUE, probe.init, TRUE, NoEnv).env
        IN  /\ ~probe.panicked
            /\ K \in DOMAIN environ
            /\ environ[K] = probe.sets[2].v
            /\ Cardinality({i \in 1..Len(cfg.lines) : DefinesKey(cfg.lines[i], K)}) = 1
            /\ \A j \in DOMAIN before \ {K} :
                  j \in DOMAIN environ /\ environ[j] = before[j]

\* C6: after mirrorToShellProfiles(K, V), whatever the file held and whatever
\* was mirrored before, each file has exactly one line beginning `export K=`,
\* and it is export K="V".
C6_OneExportLine ==
    probe.calls /= <<>> =>
        LET k == probe.calls[Len(probe.calls)].k
            v == probe.calls[Len(probe.calls)].v
            prefix == W_export \o k \o <<"=">>
        IN  \A f \in RcNames :
              LET at == {i \in 1..Len(rc[f].lines) : starts_with(rc[f].lines[i], prefix)}
              IN  /\ rc[f].exists
                  /\ Cardinality(at) = 1
                  /\ \A i \in at : rc[f].lines[i] = prefix \o <<"\"">> \o v \o <<"\"">>

\* K was mirrored twice with different values into a file that keeps two
\* other lines
C6_Witness ==
    /\ Len(probe.calls) = 2
    /\ probe.calls[1].k = probe.calls[2].k
    /\ probe.calls[1].v /= probe.calls[2].v
    /\ Len(rc[rc_files[1]].lines) = 3

\* the value load's parse finds for key k in the lines ls of a config file
\* (the last defining line wins), None when no line defines k
RECURSIVE CfgValue(_, _)
CfgValue(ls, k) ==
    IF ls = <<>> THEN None
    ELSE IF DefinesKey(ls[Len(ls)], k)
    THEN Some(trim(split_once(trim(ls[Len(ls)]))[3]))
    ELSE CfgValue(SubSeq(ls, 1, Len(ls) - 1), k)

\* what is stored for key k in config file c and shell-startup files r: its
\* value in c and its export lines in each file of r
StoredIn(c, r, k) ==
    LET prefix == W_export \o k \o <<"=">>
    IN  <<CfgValue(c.lines, k),
          [f \in RcNames |->
              SelectSeq(r[f].lines, LAMBDA line : starts_with(trim_start(line), prefix))]>>

Stored(k) == StoredIn(cfg, rc, k)

\* key k is stored after the step as before it
Kept(k) == files' = files \/ StoredIn(cfg', rc', k) = StoredIn(cfg, rc, k)

\* C7: a set-provider invocation leaves both credential keys as stored; a
\* set-API-key invocation leaves the provider-selection key and the
\* credential key of the provider that is not active as stored.
C7_OtherCredentialKept ==
    [][ /\ pc = "dispatch" /\ args.set_provider.some =>
              Kept(GEMINI_API_KEY) /\ Kept(ZAI_API_KEY)
        /\ pc = "dispatch" /\ ~args.set_provider.some /\ args.set_api_key.some =>
              /\ Kept(NLSH_PROVIDER)
              /\ current_provider(environ) = "Gemini" => Kept(ZAI_API_KEY)
              /\ current_provider(environ) = "Zai" => Kept(GEMINI_API_KEY) ]_vars

\* the provider was switched to zai after a credential had been saved for
\* gemini, and that credential is still stored
C7_Witness ==
    /\ pc = "done" /\ exitStatus = 0
    /\ args.set_provider = Some(W_zai)
    /\ Stored(NLSH_PROVIDER)[1] = Some(W_zai)
    /\ Stored(GEMINI_API_KEY)[1] = Some(<<"a">>)
    /\ Stored(GEMINI_API_KEY)[2][rc_files[1]] /= <<>>

\* the credential variable of main's provider is unset or blank
CredentialMissing ==
    LET k == IF provider = "Gemini" THEN GEMINI_API_KEY ELSE ZAI_API_KEY
    IN  k \notin DOMAIN environ \/ IsBlank(environ[k])

\* C8: when the credential check finds the active provider's key absent or
\* blank, the invocation prints the message naming that key and terminates
\* with no network call, no confirmation wait and no subprocess.
C8_MissingKeyStops ==
    provider /= "None" /\ CredentialMissing =>
        /\ pc = "done"
        /\ \E i \in 1..Len(out) :
              out[i] = <<"stdout", "missing",
                         IF provider = "Gemini" THEN GEMINI_API_KEY ELSE ZAI_API_KEY>>
        /\ netCalls = 0
        /\ decision = "None"
        /\ acquired = 0
        /\ spawned = 0

\* zai is active and its key is absent; gemini's key is set
C8_Witness ==
    /\ pc = "done"
    /\ provider = "Zai"
    /\ ZAI_API_KEY \notin DOMAIN environ
    /\ GEMINI_API_KEY \in DOMAIN environ

\* C9: ensureCredential(provider) fails naming the provider's key when the
\* key is absent or whitespace-only, and otherwise returns the trimmed value.
C9_EnsureCredential ==
    probe.checked /= "None" =>
        LET k == IF probe.checked = "Gemini" THEN GEMINI_API_KEY ELSE ZAI_API_KEY
        IN  IF k \notin DOMAIN environ \/ IsBlank(environ[k])
            THEN probe.result = [tag |-> "Err", val |-> k]
            ELSE probe.result = [tag |-> "Ok", val |-> trim(environ[k])]

\* C10: provider resolution always yields a provider; an unset or
\* unrecognized value yields Gemini; zai, z.ai and z-ai in any letter case
\* yield Zai.
C10_ProviderResolution ==
    probe.provider /= "None" =>
        /\ probe.provider \in Providers
        /\ NLSH_PROVIDER \notin DOMAIN environ => probe.provider = "Gemini"
        /\ NLSH_PROVIDER \in DOMAIN environ =>
              /\ environ[NLSH_PROVIDER] \notin ZaiSpellings \cup GeminiSpellings =>
                    probe.provider = "Gemini"
              /\ environ[NLSH_PROVIDER] \in ZaiSpellings => probe.provider = "Zai"

\* a mixed-case spelling of z-ai resolved to Zai
C10_Witness ==
    /\ probe.provider = "Zai"
    /\ NLSH_PROVIDER \in DOMAIN environ
    /\ environ[NLSH_PROVIDER] = <<"Z", "-", "a", "I">>

\* whether load's parse takes `line` as a well-formed KEY=VALUE line: not
\* blank, not a comment, holding '=', with a key that is not empty
WellFormed(line) ==
    LET trimmed == trim(line)
        kv == split_once(trimmed)
    IN  trimmed /= <<>> /\ Head(trimmed) /= "#" /\ kv[1] /\ trim(kv[2]) /= <<>>

\* the keys of the well-formed lines of ls
KeysOf(ls) ==
    {trim(split_once(trim(ls[i]))[2]) : i \in {j \in 1..Len(ls) : WellFormed(ls[j])}}

\* C11: load completes whatever the config file holds (blank lines, comment
\* lines, lines without '=', lines with an empty key), and what it has applied
\* to the configuration namespace is the well-formed KEY=VALUE lines and
\* nothing else.
C11_LoadNeverFatal ==
    probe.loaded =>
        /\ ~probe.panicked
        /\ DOMAIN environ = KeysOf(cfg.lines)
        /\ \A k \in DOMAIN environ : Some(environ[k]) = CfgValue(cfg.lines, k)

\* the config file c has the line k=v, and no other line for key k
HasEntry(c, k, v) ==
    /\ \E i \in 1..Len(c.lines) : c.lines[i] = k \o <<"=">> \o v
    /\ Cardinality({i \in 1..Len(c.lines) :
                      split_once(c.lines[i])[1] /\ trim(split_once(c.lines[i])[2]) = k}) = 1

BothWritten == \A w \in Writers : probe.at[w] = "written"

\* the invocation whose write came last, and the other one
LastWriter == probe.trace[Len(probe.trace)][1]
FirstWriter == CHOOSE w \in Writers : w /= LastWriter

\* the invocation that wrote last had read the file after the other wrote it
ReadAfterWrite ==
    \E i, j \in 1..Len(probe.trace) :
        /\ i < j
        /\ probe.trace[i] = <<FirstWriter, "write">>
        /\ probe.trace[j] = <<LastWriter, "read">>

\* C12 as stated: after two invocations have each set a key of their own,
\* under every interleaving of their read and write steps, the config file
\* holds both keys with the values written.
C12_BothKeysKept ==
    BothWritten =>
        \A w \in Writers : HasEntry(cfg, probe.key[w], probe.value[w])

\* C12 as amended: the file holds the key of the invocation that wrote last;
\* it holds the other invocation's key as written when the last writer read
\* the file after the other had written it; when it read before that, the
\* other invocation's update is lost and its key is as in the file both read.
C12_BothKeysKept_Sequential ==
    BothWritten =>
        /\ HasEntry(cfg, probe.key[LastWriter], probe.value[LastWriter])
        /\ ReadAfterWrite =>
              HasEntry(cfg, probe.key[FirstWriter], probe.value[FirstWriter])
        /\ ~ReadAfterWrite =>
              LET k == probe.key[FirstWriter]
                  was == read_vars(probe.init)
              IN  IF k \in DOMAIN was THEN HasEntry(cfg, k, was[k])
                  ELSE \A v \in StoreValues : ~HasEntry(cfg, k, v)

\* the second invocation ran wholly after the first, on a file that held
\* another line, and both keys are there
C12_Witness ==
    /\ BothWritten
    /\ ReadAfterWrite
    /\ probe.init.exists /\ probe.init.lines = <<<<"x">>>>
    /\ Len(cfg.lines) = 2

\* the invocation has come past load to line 297 with a configuration flag
ConfigFlow ==
    /\ ninv > 0
    /\ pc /= "load"
    /\ ~Printed("panic")
    /\ args.set_provider.some \/ args.set_api_key.some

\* key and value are in the config file and in every shell-startup file
Persisted(key, value) ==
    /\ HasEntry(cfg, key, value)
    /\ \A f \in RcNames :
          /\ rc[f].exists
          /\ rc[f].lines /= <<>>
          /\ rc[f].lines[Len(rc[f].lines)] = export_line(key, value)

\* no prompt was built, no network call made, no confirmation wait entered
\* and no subprocess spawned
NothingGenerated ==
    /\ pc \in {"dispatch", "done"}
    /\ provider = "None"
    /\ netCalls = 0
    /\ acquired = 0
    /\ decision = "None"
    /\ spawned = 0

\* the generation flow runs only when neither flag is given
GenerationUnflagged ==
    pc \in {"credential", "request", "show", "enable", "wait", "restore", "run"} =>
        ~args.set_provider.some /\ ~args.set_api_key.some

\* C13 as stated: with set-provider or set-API-key given, the invocation
\* persists the value, prints one confirmation line and exits 0, with no
\* prompt, network call, confirmation wait or subprocess; the generation flow
\* runs only when neither flag is given.
C13_OneFlow ==
    /\ GenerationUnflagged
    /\ ConfigFlow =>
          /\ NothingGenerated
          /\ pc = "done" =>
                /\ exitStatus = 0
                /\ Len(out) = 1
                /\ args.set_provider.some =>
                      /\ out[1] = <<"stdout", "provider_set", args.set_provider.val>>
                      /\ Persisted(NLSH_PROVIDER, args.set_provider.val)
                /\ args.set_api_key.some =>
                      /\ args.set_provider.some \/ out[1][2] = "key_saved"
                      /\ Persisted(env_key(current_provider(environ)),
                                   args.set_api_key.val)

\* C13 as amended: with set-provider given, or with set-API-key given and
\* set-provider not, no prompt is built, no network call made, no
\* confirmation wait entered and no subprocess spawned; when persistence
\* succeeds the value of the flag that drives (set-provider before
\* set-API-key) is persisted where the home directory resolves, one
\* confirmation line is printed and the exit status is 0; when persistence
\* fails the one line printed is the error and the exit status is 1. The
\* generation flow runs only when neither flag is given.
C13_OneFlow_Persisting ==
    /\ GenerationUnflagged
    /\ ConfigFlow =>
          /\ NothingGenerated
          /\ pc = "done" =>
                /\ Len(out) = 1
                /\ exitStatus \in {0, 1}
                /\ exitStatus = 1 => out[1] = <<"stderr", "Error", "io">>
                /\ exitStatus = 0 /\ args.set_provider.some =>
                      /\ out[1] = <<"stdout", "provider_set", args.set_provider.val>>
                      /\ home => Persisted(NLSH_PROVIDER, args.set_provider.val)
                /\ exitStatus = 0 /\ ~args.set_provider.some =>
                      /\ out[1] = <<"stdout", "key_saved",
                                    name(current_provider(environ))>>
                      /\ home => Persisted(env_key(current_provider(environ)),
                                           args.set_api_key.val)

\* both flags and a prompt were given: the provider was persisted and
\* confirmed, and the invocation ended with status 0
C13_Witness ==
    /\ pc = "done" /\ exitStatus = 0 /\ home
    /\ args.set_provider = Some(W_zai) /\ args.set_api_key.some /\ args.prompt /= <<>>
    /\ out = <<<<"stdout", "provider_set", W_zai>>>>
    /\ Persisted(NLSH_PROVIDER, W_zai)

\* the lines of out that report an error: the messages of lines 325 and 334
\* and the line the runtime prints when main returns Err
ErrorLines == {i \in 1..Len(out) : out[i][2] \in {"missing", "error", "Error"}}

\* C14: an invocation that ends on an error path (missing credential,
\* provider or network error, persistence, terminal or subprocess I/O error)
\* has printed exactly one line reporting the error.
C14_OneErrorLine ==
    pc = "done" /\ Printed("Error") => Cardinality(ErrorLines) = 1

\* the part of a line before its first '='
KeyPart(line) == split_once(line)[2]

C16_SpawnCooked ==
    /\ pc = "run" => ~raw /\ acquired = 1 /\ released = 1
    /\ child /= NoChild => ~raw /\ acquired = 1 /\ released = 1
    /\ raw => spawned = 0 /\ child = NoChild
    /\ pc = "done" /\ decision = "Confirmed" /\ released = 0 =>
          spawned = 0 /\ child = NoChild /\ exitStatus = 1

\* the child ran after raw mode had been entered and released
C16_Witness ==
    /\ pc = "done" /\ decision = "Confirmed"
    /\ acquired = 1 /\ released = 1 /\ ~raw
    /\ spawned = 1 /\ child.kind = "exit" /\ child.code = 0

\* C17: after a load that has read the config file, every key of a
\* well-formed line has the value of its last such line, whatever the live
\* environment held for it, and every other key has its live value; the
\* provider resolved and the credential checked afterwards are those of the
\* file where the file defines them.
C17_FilePreferred ==
    probe.loaded /\ probe.readOk /\ ~probe.panicked =>
        LET inFile == KeysOf(cfg.lines)
            fileValue(k) == CfgValue(cfg.lines, k).val
        IN  /\ DOMAIN environ = DOMAIN probe.live \cup inFile
            /\ \A k \in inFile : environ[k] = fileValue(k)
            /\ \A k \in DOMAIN probe.live \ inFile : environ[k] = probe.live[k]
            /\ probe.provider /= "None" =>
                  LET key == IF probe.provider = "Gemini"
                             THEN GEMINI_API_KEY ELSE ZAI_API_KEY
                  IN  /\ NLSH_PROVIDER \in inFile =>
                            probe.provider =
                                IF to_lowercase(fileValue(NLSH_PROVIDER))
                                      \in {W_zai, W_z_dot_ai, W_z_dash_ai}
                                THEN "Zai" ELSE "Gemini"
                      /\ key \in inFile =>
                            probe.result =
                                IF IsBlank(fileValue(key))
                                THEN [tag |-> "Err", val |-> key]
                                ELSE [tag |-> "Ok", val |-> fileValue(key)]

\* the live environment selected zai and held a gemini credential; the file
\* selects gemini and holds another credential, and those were resolved
C17_Witness ==
    /\ probe.loaded /\ probe.readOk /\ ~probe.panicked
    /\ probe.live = (NLSH_PROVIDER :> W_zai) @@ (GEMINI_API_KEY :> <<"k">>)
    /\ cfg.lines = <<NLSH_PROVIDER \o <<"=">> \o W_gemini, L_gemini_key>>
    /\ probe.provider = "Gemini"
    /\ probe.result = [tag |-> "Ok", val |-> <<"g">>]

\* a generation invocation has reached the credential check after a
\* set-provider invocation and then a set-API-key invocation with a key that
\* is not blank, both having exited with status 0
AfterSetup == probe.stage = 2 /\ ~IsBlank(probe.k) /\ probe.gen.reached

\* C18 as stated: after set-provider(p) and then set-API-key(k) with k not
\* blank, a later generation invocation resolves provider p and its
\* credential check succeeds with k.
C18_KeyUnderSelectedProvider ==
    AfterSetup =>
        /\ probe.gen.provider = probe.p
        /\ probe.gen.result = [tag |-> "Ok", val |-> probe.k]

\* C18 as amended: when the home directory resolved in the three
\* invocations and the set-API-key and generation invocations read the
\* config file, the generation invocation resolves provider p and its
\* credential check succeeds with k trimmed of surrounding whitespace.
C18_KeyUnderSelectedProvider_Trimmed ==
    AfterSetup /\ probe.clean /\ probe.genClean =>
        /\ probe.gen.provider = probe.p
        /\ probe.gen.result = [tag |-> "Ok", val |-> trim(probe.k)]

\* gemini was selected while the file selected z.ai and held a credential
\* for zai, which is still there; the key given with a trailing blank is
\* found without it
C18_Witness ==
    /\ AfterSetup /\ probe.clean /\ probe.genClean
    /\ probe.p = "Gemini"
    /\ probe.k = <<"b", " ">>
    /\ probe.gen.result = [tag |-> "Ok", val |-> <<"b">>]
    /\ HasEntry(cfg, ZAI_API_KEY, <<"z">>)
    /\ HasEntry(cfg, NLSH_PROVIDER, W_gemini)

====
